---- MODULE Spec2Model ----
(***************************************************************************)
(* Model of package order (src/order/order.go): the Order aggregate, its   *)
(* events, the in-memory event store, the repository and the command       *)
(* handler.  Every call of the package is one atomic step (the package is  *)
(* single-threaded: no call suspends).                                     *)
(***************************************************************************)
EXTENDS Integers, Sequences, FiniteSets, TLC

\* ------------------------------------------------------------------ bounds
MaxLog == 3      \* longest event-store log explored
MaxEvents == 2   \* longest event sequence handed to EventStore.Save directly
MaxLines == 1    \* longest order-line list of a Place
MaxOps == 2      \* most effective operations performed on one in-memory aggregate
NumHandlers == 2 \* command handlers (goroutines) running Handle concurrently

\* ------------------------------------------------------------- data types
\* Identifiers: the empty string and two non-empty ones.
IDs == {"", "a", "b"}

\* type Status int; const ( StatusPlaced Status = iota; StatusActivated )
StatusPlaced == 0
StatusActivated == 1

\* The package's error values; nil is "no error".
nil == "nil"
errAlreadyPlaced == "order has already been placed"
errEmptyOrderLine == "empty order line"
errOrderNotFound == "order was not found"

\* type Line struct{}: every order line is the same empty value.
Line == "Line{}"

\* The order-line lists a caller can pass: 0..MaxLines empty structs.
LineLists == UNION {[1..n -> {Line}] : n \in 0..MaxLines}

\* The two event types; ID() returns OrderID.
Placed(id) == [type |-> "Placed", OrderID |-> id]
Activated(id) == [type |-> "Activated", OrderID |-> id]
EventID(e) == e.OrderID

\* Every event value over the identifiers.
Events == {Placed(id) : id \in IDs} \cup {Activated(id) : id \in IDs}

\* The event sequences a caller can hand to EventStore.Save.
EventLists == UNION {[1..n -> Events] : n \in 0..MaxEvents}

\* type Order struct { ID string; Status Status; uncommitted []Event }
NewOrder(id) == [ID |-> id, Status |-> StatusPlaced, uncommitted |-> <<>>]

\* Order{}: the zero value (Status 0 is StatusPlaced).
ZeroOrder == NewOrder("")

\* ------------------------------------------------------------- aggregate
\* func handle(o *Order, e Event): the type switch on the event.
handle_NoActivated(o, e) ==
    IF e.type = "Placed" THEN [o EXCEPT !.Status = StatusPlaced] ELSE o

handle(o, e) ==
    CASE e.type = "Activated" -> [o EXCEPT !.Status = StatusActivated]
      [] e.type = "Placed" -> [o EXCEPT !.Status = StatusPlaced]
      [] OTHER -> o

\* func apply(o *Order, e Event, isNew bool)
apply_AlwaysNew(o, e, isNew) ==
    LET h == handle([o EXCEPT !.ID = EventID(e)], e)
    IN  [h EXCEPT !.uncommitted = Append(@, e)]

apply(o, e, isNew) ==
    LET h == handle([o EXCEPT !.ID = EventID(e)], e)
    IN  IF isNew THEN [h EXCEPT !.uncommitted = Append(@, e)] ELSE h

\* func (o *Order) Place(orderLines []Line) error: the aggregate after the
\* call and the error returned.
Order_Place_IDSet(o, orderLines) ==
    IF o.ID # "" THEN [o |-> o, err |-> errAlreadyPlaced]
    ELSE IF Len(orderLines) = 0 THEN [o |-> o, err |-> errEmptyOrderLine]
    ELSE [o |-> apply(o, Placed(o.ID), TRUE), err |-> nil]

Order_Place_NoLineCheck(o, orderLines) ==
    IF o.ID = "" THEN [o |-> o, err |-> errAlreadyPlaced]
    ELSE [o |-> apply(o, Placed(o.ID), TRUE), err |-> nil]

Order_Place(o, orderLines) ==
    IF o.ID = "" THEN [o |-> o, err |-> errAlreadyPlaced]
    ELSE IF Len(orderLines) = 0 THEN [o |-> o, err |-> errEmptyOrderLine]
    ELSE [o |-> apply(o, Placed(o.ID), TRUE), err |-> nil]

\* func (o *Order) Activate()
Order_Activate_NoGuard(o) == apply(o, Activated(o.ID), TRUE)

Order_Activate(o) ==
    IF o.Status = StatusPlaced THEN apply(o, Activated(o.ID), TRUE) ELSE o

\* func loadFromHistory(events []Event) Order: fold apply over the events,
\* first to last, starting from the zero Order.
RECURSIVE replay(_, _)
replay(o, es) ==
    IF es = <<>> THEN o ELSE replay(apply(o, Head(es), FALSE), Tail(es))

RECURSIVE reversed(_)
reversed(es) ==
    IF es = <<>> THEN <<>> ELSE Append(reversed(Tail(es)), Head(es))

loadFromHistory_Backwards(es) == replay(ZeroOrder, reversed(es))

loadFromHistory_FirstOnly(es) ==
    IF es = <<>> THEN ZeroOrder ELSE apply(ZeroOrder, Head(es), FALSE)

loadFromHistory(es) == replay(ZeroOrder, es)

\* ------------------------------------------------------------ event store
\* func (s *eventStore) Save(id string, events []Event): the log afterwards.
eventStore_Save_Prepend(log, id, es) == es \o log

eventStore_Save_Replace(log, id, es) == es

eventStore_Save(log, id, es) == log \o es

\* The loop of eventStore.Load: the events of the log whose ID() is id.
ownedBy_All(log, id) == log

RECURSIVE ownedBy(_, _)
ownedBy(log, id) ==
    IF log = <<>> THEN <<>>
    ELSE IF EventID(Head(log)) = id
         THEN <<Head(log)>> \o ownedBy(Tail(log), id)
         ELSE ownedBy(Tail(log), id)

\* func (s *eventStore) Load(id string) ([]Event, error)
eventStore_Load_NoNotFound(log, id) ==
    [events |-> ownedBy(log, id), err |-> nil]

eventStore_Load(log, id) ==
    LET result == ownedBy(log, id)
    IN  IF Len(result) = 0
        THEN [events |-> <<>>, err |-> errOrderNotFound]
        ELSE [events |-> result, err |-> nil]

\* ------------------------------------------------------------- repository
\* func (r *defaultRepository) Save(order Order): the log afterwards.  The
\* order is passed by value and its buffer is not touched.
defaultRepository_Save_Never(log, o) ==
    IF Len(o.uncommitted) = 0
    THEN eventStore_Save(log, o.ID, o.uncommitted)
    ELSE log

defaultRepository_Save(log, o) ==
    IF Len(o.uncommitted) > 0
    THEN eventStore_Save(log, o.ID, o.uncommitted)
    ELSE log

\* func (r *defaultRepository) Load(id string) Order
defaultRepository_Load_Seeded(log, id) ==
    LET r == eventStore_Load(log, id)
    IN  IF r.err # nil THEN NewOrder(id) ELSE loadFromHistory(r.events)

defaultRepository_Load(log, id) ==
    LET r == eventStore_Load(log, id)
    IN  IF r.err # nil THEN ZeroOrder ELSE loadFromHistory(r.events)

\* --------------------------------------------------------- command handler
\* The commands: Place{OrderID, Lines} and Activate{OrderID}.
Place(id, lines) == [type |-> "Place", OrderID |-> id, Lines |-> lines]
Activate(id) == [type |-> "Activate", OrderID |-> id]

\* func (h *commandHandler) Handle(c interface{}): the log afterwards and
\* the error the handler logs.
commandHandler_Handle(log, cmd) ==
    CASE cmd.type = "Place" ->
           LET r == Order_Place(NewOrder(cmd.OrderID), cmd.Lines)
           IN  [log |-> defaultRepository_Save(log, r.o), err |-> r.err]
      [] cmd.type = "Activate" ->
           LET o == Order_Activate(defaultRepository_Load(log, cmd.OrderID))
           IN  [log |-> defaultRepository_Save(log, o), err |-> nil]
      [] OTHER -> [log |-> log, err |-> nil]

\* ------------------------------------------------------------------ state
VARIABLES
    events,   \* eventStore.events: the one log of the store
    order,    \* an Order value held by a caller of the package
    made,     \* how `order` came about: by |-> "new" | "load", ops |-> number
              \* of operations that have applied to it or returned no error
    last,     \* the call made by the last step, with its arguments and results
    handlers, \* per goroutine running Handle: where it is in the call (pc),
              \* its command, its local Order and the s.events it has read
    generated \* number of events the Handle calls have handed to Store.Save

vars == <<events, order, made, last, handlers, generated>>

\* The goroutines that call Handle concurrently.
Handlers == 1..NumHandlers

\* A goroutine that is not inside Handle.
Idle == [pc |-> "idle", cmd |-> Activate(""), order |-> ZeroOrder, seen |-> <<>>]

\* The record of a call; fields a call does not use keep these values.
NoCall ==
    [op |-> "none", id |-> "", lines |-> <<>>, evs |-> <<>>,
     err |-> nil, res |-> <<>>]

\* NewEventStore(), NewRepository(store), NewCommandHandler(repo): an empty
\* log; the caller holds a zero Order.
Init ==
    /\ events = <<>>
    /\ order = ZeroOrder
    /\ made = [by |-> "new", ops |-> 0]
    /\ last = NoCall
    /\ handlers = [h \in Handlers |-> Idle]
    /\ generated = 0

\* handler.Handle(Place{OrderID: id, Lines: lines})
HandlePlace(id, lines) ==
    LET r == commandHandler_Handle(events, Place(id, lines))
    IN  /\ Len(r.log) <= MaxLog
        /\ events' = r.log
        /\ last' = [NoCall EXCEPT !.op = "HandlePlace", !.id = id,
                                  !.lines = lines, !.err = r.err]
        /\ UNCHANGED <<order, made, handlers, generated>>

\* handler.Handle(Activate{OrderID: id})
HandleActivate(id) ==
    LET r == commandHandler_Handle(events, Activate(id))
    IN  /\ Len(r.log) <= MaxLog
        /\ events' = r.log
        /\ last' = [NoCall EXCEPT !.op = "HandleActivate", !.id = id]
        /\ UNCHANGED <<order, made, handlers, generated>>

\* store.Save(id, es), called on the event store directly.
StoreSave(id, es) ==
    /\ Len(events) + Len(es) <= MaxLog
    /\ events' = eventStore_Save(events, id, es)
    /\ last' = [NoCall EXCEPT !.op = "StoreSave", !.id = id, !.evs = es]
    /\ UNCHANGED <<order, made, handlers, generated>>

\* store.Load(id), called on the event store directly.
StoreLoad(id) ==
    LET r == eventStore_Load(events, id)
    IN  /\ last' = [NoCall EXCEPT !.op = "StoreLoad", !.id = id,
                                  !.res = r.events, !.err = r.err]
        /\ UNCHANGED <<events, order, made, handlers, generated>>

\* order := Order{ID: id}
MakeOrder(id) ==
    /\ order' = NewOrder(id)
    /\ made' = [by |-> "new", ops |-> 0]
    /\ last' = [NoCall EXCEPT !.op = "MakeOrder", !.id = id]
    /\ UNCHANGED <<events, handlers, generated>>

\* order.Place(lines)
CallPlace(lines) ==
    LET r == Order_Place(order, lines)
    IN  /\ made.ops < MaxOps
        /\ order' = r.o
        /\ made' = IF r.err = nil THEN [made EXCEPT !.ops = @ + 1] ELSE made
        /\ last' = [NoCall EXCEPT !.op = "CallPlace", !.lines = lines,
                                  !.err = r.err]
        /\ UNCHANGED <<events, handlers, generated>>

\* order.Activate()
CallActivate ==
    /\ made.ops < MaxOps
    /\ order' = Order_Activate(order)
    /\ made' = [made EXCEPT !.ops = @ + 1]
    /\ last' = [NoCall EXCEPT !.op = "CallActivate"]
    /\ UNCHANGED <<events, handlers, generated>>

\* repo.Save(order)
RepoSave ==
    LET log == defaultRepository_Save(events, order)
    IN  /\ Len(log) <= MaxLog
        /\ events' = log
        /\ last' = [NoCall EXCEPT !.op = "RepoSave", !.id = order.ID]
        /\ UNCHANGED <<order, made, handlers, generated>>

\* order = repo.Load(id)
RepoLoad(id) ==
    /\ order' = defaultRepository_Load(events, id)
    /\ made' = [by |-> "load", ops |-> 0]
    /\ last' = [NoCall EXCEPT !.op = "RepoLoad", !.id = id]
    /\ UNCHANGED <<events, handlers, generated>>

\* Handle(cmd) entered by goroutine h.  A Place builds Order{ID: id} and
\* calls Place on it (local to the goroutine); an Activate goes on to load.
ConcHandle(h, cmd) ==
    /\ handlers[h].pc \in {"idle", "done"}
    /\ generated < MaxLog
    /\ handlers' =
         [handlers EXCEPT ![h] =
            IF cmd.type = "Place"
            THEN [pc |-> "save", cmd |-> cmd, seen |-> <<>>,
                  order |-> Order_Place(NewOrder(cmd.OrderID), cmd.Lines).o]
            ELSE [pc |-> "load", cmd |-> cmd, seen |-> <<>>,
                  order |-> ZeroOrder]]
    /\ UNCHANGED <<events, order, made, last, generated>>

\* order := h.Repository.Load(cmd.OrderID); order.Activate(): the read of
\* s.events by eventStore.Load, then the goroutine's local replay and call.
ConcLoad(h) ==
    /\ handlers[h].pc = "load"
    /\ handlers' =
         [handlers EXCEPT ![h].pc = "save",
                          ![h].order = Order_Activate(
                              defaultRepository_Load(events, handlers[h].cmd.OrderID))]
    /\ UNCHANGED <<events, order, made, last, generated>>

\* h.Repository.Save(order) up to the read of s.events in
\* `s.events = append(s.events, events...)`; with an empty buffer Save
\* returns at once.  The store holds no lock, so the read and the write of
\* s.events are separate steps of the goroutine.
ConcSaveRead(h) ==
    /\ handlers[h].pc = "save"
    /\ IF Len(handlers[h].order.uncommitted) > 0
       THEN /\ handlers' = [handlers EXCEPT ![h].pc = "write", ![h].seen = events]
            /\ generated' = generated + Len(handlers[h].order.uncommitted)
       ELSE /\ handlers' = [handlers EXCEPT ![h].pc = "done"]
            /\ UNCHANGED generated
    /\ UNCHANGED <<events, order, made, last>>

\* The write of s.events: the slice read before with the buffer appended.
ConcSaveWrite(h) ==
    /\ handlers[h].pc = "write"
    /\ events' = eventStore_Save(handlers[h].seen, handlers[h].order.ID,
                                 handlers[h].order.uncommitted)
    /\ handlers' = [handlers EXCEPT ![h].pc = "done"]
    /\ UNCHANGED <<order, made, last, generated>>

\* The commands a caller can hand to Handle.
Commands ==
    {Place(id, lines) : id \in IDs, lines \in LineLists}
      \cup {Activate(id) : id \in IDs}

\* Handle calls running concurrently on one command handler.
NextConcurrent ==
    \/ \E h \in Handlers, cmd \in Commands : ConcHandle(h, cmd)
    \/ \E h \in Handlers : ConcLoad(h)
    \/ \E h \in Handlers : ConcSaveRead(h)
    \/ \E h \in Handlers : ConcSaveWrite(h)

SpecConcurrent == Init /\ [][NextConcurrent]_vars

\* Calls on the command handler and on the event store.
Next ==
    \/ \E id \in IDs, lines \in LineLists : HandlePlace(id, lines)
    \/ \E id \in IDs : HandleActivate(id)
    \/ \E id \in IDs, es \in EventLists : StoreSave(id, es)
    \/ \E id \in IDs : StoreLoad(id)

Spec == Init /\ [][Next]_vars

\* Calls on an Order held by the caller and on the repository.
NextAggregate ==
    \/ \E id \in IDs : MakeOrder(id)
    \/ \E lines \in LineLists : CallPlace(lines)
    \/ CallActivate
    \/ RepoSave
    \/ \E id \in IDs : RepoLoad(id)

SpecAggregate == Init /\ [][NextAggregate]_vars

\* Calls on the command handler, on an Order held by the caller and on the
\* repository.
NextRepository ==
    \/ \E id \in IDs, lines \in LineLists : HandlePlace(id, lines)
    \/ \E id \in IDs : HandleActivate(id)
    \/ \E id \in IDs : MakeOrder(id)
    \/ \E lines \in LineLists : CallPlace(lines)
    \/ CallActivate
    \/ RepoSave
    \/ \E id \in IDs : RepoLoad(id)

SpecRepository == Init /\ [][NextRepository]_vars

\* Commands only: every step is one Handle call.
NextCommands ==
    \/ \E id \in IDs, lines \in LineLists : HandlePlace(id, lines)
    \/ \E id \in IDs : HandleActivate(id)

SpecCommands == Init /\ [][NextCommands]_vars

\* ----------------------------------------------------------------- claims
\* Whether the log holds an event owned by id.
HasHistory(log, id) == \E i \in 1..Len(log) : log[i].OrderID = id

\* C1: for a non-empty id with no recorded history and a non-empty line
\* list, after Handle(Place{id, lines}) the repository's Load(id) returns an
\* order whose ID is id and whose status is Placed.
C1_PlaceThenLoad ==
    [][(/\ last'.op = "HandlePlace"
        /\ last'.id # ""
        /\ last'.lines # <<>>
        /\ ~HasHistory(events, last'.id))
       => LET o == defaultRepository_Load(events', last'.id)
          IN  o.ID = last'.id /\ o.Status = StatusPlaced]_vars

C1_Witness ==
    /\ last.op = "HandlePlace"
    /\ last.id = "a"
    /\ last.lines = <<Line>>
    /\ events = <<Placed("a")>>

\* C2: when the stored history of id replays to status Placed,
\* Handle(Activate{id}) appends exactly one Activated event owned by id, and
\* the repository's Load(id) then returns ID id and status Activated.
C2_ActivatePlaced ==
    [][(/\ last'.op = "HandleActivate"
        /\ HasHistory(events, last'.id)
        /\ loadFromHistory(eventStore_Load(events, last'.id).events).Status
             = StatusPlaced)
       => /\ events' = Append(events, Activated(last'.id))
          /\ LET o == defaultRepository_Load(events', last'.id)
             IN  o.ID = last'.id /\ o.Status = StatusActivated]_vars

C2_Witness ==
    /\ last.op = "HandleActivate"
    /\ last.id = "a"
    /\ events = <<Placed("a"), Activated("a")>>

C4_EmptyLinesRejected ==
    [][(last'.op = "HandlePlace" /\ last'.id # "" /\ last'.lines = <<>>)
       => /\ last'.err = errEmptyOrderLine
          /\ events' = events
          /\ ~HasHistory(events, last'.id)
               => eventStore_Load(events', last'.id).err = errOrderNotFound]_vars

C4_Witness ==
    /\ last.op = "HandlePlace"
    /\ last.id = "a"
    /\ last.lines = <<>>
    /\ last.err = errEmptyOrderLine
    /\ ~HasHistory(events, "a")
    /\ events # <<>>

\* C5 as stated: for an id with no recorded events, Handle(Activate{id})
\* leaves the log unchanged (no event is appended under any identifier).
C5_Original ==
    [][(last'.op = "HandleActivate" /\ ~HasHistory(events, last'.id))
       => events' = events]_vars

\* C6: Activate() on an aggregate whose status is Activated adds no
\* uncommitted event and leaves the status unchanged, and
\* Handle(Activate{id}) for an id whose history replays to Activated leaves
\* the log unchanged.
C6_ActivateIdempotent ==
    [][/\ (last'.op = "CallActivate" /\ order.Status = StatusActivated)
            => /\ order'.uncommitted = order.uncommitted
               /\ order'.Status = order.Status
       /\ (/\ last'.op = "HandleActivate"
           /\ defaultRepository_Load(events, last'.id).Status
                = StatusActivated)
            => events' = events]_vars

C6_Witness ==
    /\ last.op = "HandleActivate"
    /\ last.id = "a"
    /\ events = <<Placed("a"), Activated("a"), Placed("b")>>

\* C7 as stated: after EventStore.Save(id, events), Load(id) returns the
\* history Load(id) held before concatenated with events, whatever the
\* events are.
C7_Original ==
    [][last'.op = "StoreSave"
       => eventStore_Load(events', last'.id).events
            = eventStore_Load(events, last'.id).events \o last'.evs]_vars

\* C7 amended: after EventStore.Save(id, events), Load(id) returns the
\* history Load(id) held before concatenated with the events of `events`
\* that are owned by id, in the same order (all of `events` when every one
\* of them is owned by id); events owned by another identifier are not
\* returned by Load(id).
C7_AppendOwned ==
    [][last'.op = "StoreSave"
       => LET before == eventStore_Load(events, last'.id).events
              after == eventStore_Load(events', last'.id).events
              owned == SelectSeq(last'.evs, LAMBDA e : e.OrderID = last'.id)
          IN  /\ after = before \o owned
              /\ (\A i \in 1..Len(last'.evs) : last'.evs[i].OrderID = last'.id)
                   => after = before \o last'.evs]_vars

C7_Witness ==
    /\ last.op = "StoreSave"
    /\ last.id = "a"
    /\ last.evs = <<Placed("b"), Activated("a")>>
    /\ events = <<Placed("a"), Placed("b"), Activated("a")>>

\* C8: EventStore.Load(id) fails with NotFound exactly when the log holds no
\* event owned by id; otherwise it returns a non-empty sequence and no
\* error; in both cases the log is left unchanged.
C8_LoadNotFound ==
    [][last'.op = "StoreLoad"
       => /\ (last'.err = errOrderNotFound) <=> ~HasHistory(events, last'.id)
          /\ (last'.err # errOrderNotFound)
               => (last'.err = nil /\ last'.res # <<>>)
          /\ events' = events]_vars

C8_Witness ==
    /\ last.op = "StoreLoad"
    /\ last.id = "a"
    /\ last.err = errOrderNotFound
    /\ events # <<>>

\* C9 as stated: for any sequence of successful operations on a fresh
\* aggregate (the empty sequence too), saving it and loading by its
\* identifier returns the same identifier and status.
C9_Original ==
    [][(last'.op = "RepoSave" /\ made.by = "new")
       => LET o == defaultRepository_Load(events', order.ID)
          IN  o.ID = order.ID /\ o.Status = order.Status]_vars

\* C9 amended: for any non-empty sequence of successful operations (Place,
\* Activate) on a fresh aggregate, saving it through the repository and
\* then loading by its identifier returns an aggregate with the same
\* identifier and status as the in-memory aggregate had before the save.
C9_RoundTrip ==
    [][(last'.op = "RepoSave" /\ made.by = "new" /\ made.ops >= 1)
       => LET o == defaultRepository_Load(events', order.ID)
          IN  o.ID = order.ID /\ o.Status = order.Status]_vars

C9_Witness ==
    /\ last.op = "RepoSave"
    /\ made = [by |-> "new", ops |-> 2]
    /\ order.uncommitted = <<Placed("a"), Activated("a")>>
    /\ events = <<Placed("a"), Activated("a")>>

\* C10: Repository.Save appends exactly the aggregate's uncommitted events,
\* in generated order, and nothing when the buffer is empty; an aggregate
\* returned by Repository.Load has an empty buffer, so saving it as loaded
\* leaves the log unchanged.
C10_SaveUncommitted ==
    [][/\ last'.op = "RepoSave"
            => /\ events' = events \o order.uncommitted
               /\ (order.uncommitted = <<>>) => (events' = events)
       /\ last'.op = "RepoLoad" => order'.uncommitted = <<>>
       /\ (last'.op = "RepoSave" /\ made = [by |-> "load", ops |-> 0])
            => events' = events]_vars

C10_Witness ==
    /\ last.op = "RepoSave"
    /\ made = [by |-> "load", ops |-> 0]
    /\ order.ID = "a"
    /\ order.Status = StatusActivated
    /\ events = <<Placed("a"), Activated("a")>>

\* C11: Repository.Load never surfaces NotFound: for an identifier with no
\* recorded events it returns the zero-value aggregate (empty identifier,
\* default status, empty uncommitted buffer) and leaves the log unchanged.
C11_SoftMiss ==
    [][(last'.op = "RepoLoad" /\ ~HasHistory(events, last'.id))
       => /\ eventStore_Load(events, last'.id).err = errOrderNotFound
          /\ order' = [ID |-> "", Status |-> 0, uncommitted |-> <<>>]
          /\ events' = events]_vars

C11_Witness ==
    /\ last.op = "RepoLoad"
    /\ last.id = "a"
    /\ events = <<Placed("b")>>
    /\ order = ZeroOrder

\* C12 as stated: after any sequence of Place and Activate commands the
\* stored history of every identifier holds at most one Placed event, and a
\* Place command (with order lines) for an identifier that already has
\* recorded history is rejected as already placed (and appends nothing).
C12_Original ==
    [][/\ \A id \in IDs :
            Cardinality({i \in 1..Len(events') : events'[i] = Placed(id)}) <= 1
       /\ (/\ last'.op = "HandlePlace"
           /\ last'.lines # <<>>
           /\ HasHistory(events, last'.id))
            => (last'.err = errAlreadyPlaced /\ events' = events)]_vars

\* C13 as stated: every Activated event in the log is preceded in the log
\* by a Placed event with the same owning identifier.
C13_Original ==
    \A i \in 1..Len(events) :
        events[i].type = "Activated"
          => \E j \in 1..(i - 1) : events[j] = Placed(events[i].OrderID)

\* C14 as stated: Handle of a command addressed to identifier a leaves the
\* stored history of every other identifier b unchanged, and every event
\* the command appends is owned by a.
C14_Original ==
    [][last'.op \in {"HandlePlace", "HandleActivate"}
       => /\ \A b \in IDs \ {last'.id} :
                eventStore_Load(events', b) = eventStore_Load(events, b)
          /\ \A i \in (Len(events) + 1)..Len(events') :
                events'[i].OrderID = last'.id]_vars

\* Whether sequence s occurs in sequence t in order (not necessarily
\* adjacent).
RECURSIVE IsSubSeq(_, _)
IsSubSeq(s, t) ==
    IF s = <<>> THEN TRUE
    ELSE IF t = <<>> THEN FALSE
    ELSE IF Head(s) = Head(t) THEN IsSubSeq(Tail(s), Tail(t))
    ELSE IsSubSeq(s, Tail(t))

\* C15 as stated: when command handlers run concurrently against one event
\* store, once all of them have completed every event any of them generated
\* is in the log (none is lost), each handler's events in generated order.
C15_Original ==
    (\A h \in Handlers : handlers[h].pc \in {"idle", "done"})
      => /\ Len(events) = generated
         /\ \A h \in Handlers :
              handlers[h].pc = "done"
                => IsSubSeq(handlers[h].order.uncommitted, events)

\* C16 as stated: Repository.Save called twice in a row on the same
\* aggregate, with no operation in between, appends the aggregate's
\* uncommitted events only once (the second Save appends nothing).
C16_Original ==
    [][(last.op = "RepoSave" /\ last'.op = "RepoSave") => events' = events]_vars

\* Whether sequence s is a prefix of sequence t.
IsPrefix(s, t) == Len(s) <= Len(t) /\ SubSeq(t, 1, Len(s)) = s

\* C17: the event store is append-only: across every step (Handle,
\* Repository.Save/Load inside it, EventStore.Save/Load) the log before the
\* step is a prefix of the log after it.
C17_AppendOnly == [][IsPrefix(events, events')]_vars

C17_Witness ==
    /\ last.op = "StoreSave"
    /\ last.evs = <<Activated("a"), Placed("b")>>
    /\ events = <<Placed("a"), Activated("a"), Placed("b")>>

\* The aggregate after replaying the first k events of history h.
ReplayedTo(h, k) == loadFromHistory(SubSeq(h, 1, k))

\* C18: an aggregate's identifier, once non-empty, never changes: no Place
\* or Activate on an aggregate, and no replay step performed by
\* Repository.Load(id), changes a non-empty ID to a different value.
C18_IDStable ==
    [][/\ (last'.op \in {"CallPlace", "CallActivate"} /\ order.ID # "")
            => order'.ID = order.ID
       /\ last'.op = "RepoLoad"
            => LET h == eventStore_Load(events, last'.id).events
               IN  /\ order' = ReplayedTo(h, Len(h))
                   /\ \A k \in 0..(Len(h) - 1) :
                        ReplayedTo(h, k).ID # ""
                          => ReplayedTo(h, k + 1).ID = ReplayedTo(h, k).ID]_vars

C18_Witness ==
    /\ last.op = "RepoLoad"
    /\ last.id = "a"
    /\ events = <<Placed("a"), Placed("b"), Activated("a")>>
    /\ order = [ID |-> "a", Status |-> StatusActivated, uncommitted |-> <<>>]

\* The status an event sets.
StatusOf(e) == IF e.type = "Placed" THEN StatusPlaced ELSE StatusActivated

\* C19: for every non-empty stored history of id, Repository.Load(id)
\* returns an aggregate whose ID is id and whose status is the one set by
\* the last event of that history (Placed then Activated replays to
\* Activated), and two Loads of id with no append in between return equal
\* aggregates.
C19_ReplayFold ==
    [][/\ (last'.op = "RepoLoad" /\ HasHistory(events, last'.id))
            => LET h == SelectSeq(events, LAMBDA e : e.OrderID = last'.id)
               IN  /\ order'.ID = last'.id
                   /\ order'.Status = StatusOf(h[Len(h)])
       /\ (last.op = "RepoLoad" /\ last'.op = "RepoLoad" /\ last'.id = last.id)
            => order' = order]_vars

C19_Witness ==
    /\ last.op = "RepoLoad"
    /\ last.id = "b"
    /\ events = <<Placed("b"), Activated("b")>>
    /\ order = [ID |-> "b", Status |-> StatusActivated, uncommitted |-> <<>>]

\* C20 as stated: once the repository's Load(id) reports status Activated
\* for an identifier, it reports Activated after every further Place or
\* Activate command.
C20_Original ==
    [][\A id \in IDs :
         defaultRepository_Load(events, id).Status = StatusActivated
           => defaultRepository_Load(events', id).Status = StatusActivated]_vars

====
